---- MODULE Spec2Model ----
(***************************************************************************)
(* Model of src/plugins/wake_word.py: the WakeWordPlugin lifecycle shell,  *)
(* the detection handler _on_detected (Stage A: interruption of the host,  *)
(* Stage B: alert-audio resolution and playback dispatch) and the playback *)
(* backend _play_audio_file.                                               *)
(*                                                                         *)
(* Python values:                                                          *)
(*   - an optional string (wake_word, full_text, a key of the audio map)   *)
(*     is a record [isNone, val]; val is the sequence of its characters;   *)
(*   - a file path is opaque to this code apart from its truthiness, so a  *)
(*     path is a TLA+ string and "" is the empty path; selected_path is an *)
(*     optional path [isNone, val];                                        *)
(*   - the audio map is a dict: a sequence of [key, path] entries in       *)
(*     insertion order, with pairwise distinct keys.                       *)
(***************************************************************************)
EXTENDS Integers, Sequences, FiniteSets, TLC

(***************************************************************************)
(* Bounds of the model.                                                    *)
(***************************************************************************)
\* longest wake_word / full_text / key, in characters
MaxStrLen == 2
\* most entries of ALERT_AUDIO_MAP
MaxMapLen == 2
\* most detection events handled in one behaviour of Spec, and most calls of
\* _play_audio_file the executor holds in one behaviour of SpecPlay
MaxEvents == 2

Alphabet == {"a", "b"}

(***************************************************************************)
(* Python values.                                                          *)
(***************************************************************************)
None == [isNone |-> TRUE, val |-> <<>>]

Str(s) == [isNone |-> FALSE, val |-> s]

NoPath == [isNone |-> TRUE, val |-> ""]

SomePath(p) == [isNone |-> FALSE, val |-> p]

\* str(x): a str is its own str(); str(None) is the text "None".
PyStr(v) == IF v.isNone THEN <<"N", "o", "n", "e">> ELSE v.val

\* bool(x) of an optional string
Truthy(v) == (~v.isNone) /\ (v.val # <<>>)

\* bool(x) of an optional path
TruthyPath(p) == (~p.isNone) /\ (p.val # "")

\* key in text, for two str
IsSubstring(k, s) ==
    \E i \in 0..(Len(s) - Len(k)) : SubSeq(s, i + 1, i + Len(k)) = k

(***************************************************************************)
(* The Alert Audio Resolver: lines 96-127 of _on_detected.                 *)
(***************************************************************************)
\* lines 96-100: detected = str(wake_word) if wake_word is not None else ""
Detected(ww) == IF ~ww.isNone THEN PyStr(ww) ELSE <<>>

\* lines 104-112: the exact-match loop from entry i on; the index of the
\* entry it breaks at, 0 when it runs off the end of the map.
RECURSIVE ExactScan(_, _, _)
ExactScan(detected, m, i) ==
    IF i > Len(m) THEN 0
    ELSE IF m[i].key.isNone THEN ExactScan(detected, m, i + 1)
    ELSE IF detected = PyStr(m[i].key) THEN i
    ELSE ExactScan(detected, m, i + 1)

\* the test of line 120 alone: full_text is not looked at
SubstringHit_WakeWordOnly(key, detected, ft) == IsSubstring(key.val, detected)

\* lines 120-125: the two tests made on one key of the substring loop
SubstringHit(key, detected, ft) ==
    \/ IsSubstring(key.val, detected)
    \/ (Truthy(ft) /\ IsSubstring(key.val, PyStr(ft)))

\* the substring loop without its breaks: the last hit is kept
RECURSIVE SubstringScan_NoBreak(_, _, _, _)
SubstringScan_NoBreak(detected, ft, m, i) ==
    IF i > Len(m) THEN 0
    ELSE LET later == SubstringScan_NoBreak(detected, ft, m, i + 1)
         IN  IF later # 0 THEN later
             ELSE IF ~m[i].key.isNone /\ SubstringHit(m[i].key, detected, ft) THEN i
             ELSE 0

\* lines 116-127: the substring loop from entry i on; the index of the entry
\* it breaks at, 0 when it runs off the end of the map.
RECURSIVE SubstringScan(_, _, _, _)
SubstringScan(detected, ft, m, i) ==
    IF i > Len(m) THEN 0
    ELSE IF m[i].key.isNone THEN SubstringScan(detected, ft, m, i + 1)
    ELSE IF SubstringHit(m[i].key, detected, ft) THEN i
    ELSE SubstringScan(detected, ft, m, i + 1)

\* the value of selected_path after a loop that broke at entry i (0: no break)
PathAt(m, i) == IF i = 0 THEN NoPath ELSE SomePath(m[i].path)

\* the two loops in the other order: the substring loop first
ResolveIdx_SubstringFirst(ww, ft, m) ==
    LET sb == SubstringScan(Detected(ww), ft, m, 1)
    IN  IF sb # 0 THEN sb ELSE ExactScan(Detected(ww), m, 1)

\* lines 102-127: the index of the entry whose path ends up in selected_path
\* (0: selected_path stays None). The substring loop runs only when
\* selected_path is None after the exact loop.
ResolveIdx(ww, ft, m) ==
    LET e == ExactScan(Detected(ww), m, 1)
    IN  IF PathAt(m, e).isNone THEN SubstringScan(Detected(ww), ft, m, 1) ELSE e

Resolve(ww, ft, m) == PathAt(m, ResolveIdx(ww, ft, m))

(***************************************************************************)
(* Input domains.                                                          *)
(***************************************************************************)
Strings == UNION {[1..n -> Alphabet] : n \in 0..MaxStrLen}

OptStrings == {None} \cup {Str(s) : s \in Strings}

\* the path stored under the i-th entry: paths are opaque to the resolver, so
\* one distinct path per position identifies the entry that was selected.
PathOf(i) == <<"a.wav", "b.wav", "c.wav", "d.wav">>[i]

KeySeqs ==
    {ks \in UNION {[1..n -> OptStrings] : n \in 0..MaxMapLen} :
        \A i, j \in DOMAIN ks : i # j => ks[i] # ks[j]}

Maps == {[i \in DOMAIN ks |-> [key |-> ks[i], path |-> PathOf(i)]] : ks \in KeySeqs}

\* what the detection handler reads of one event and of the configuration
\* in Spec: the cases of the specification's scenarios (an exact key behind a
\* substring collision, several substring hits, a null and an empty key, an
\* empty path, a key found in full_text only, the empty map).
A == <<"a">>

AB == <<"a", "b">>

B == <<"b">>

BB == <<"b", "b">>

Entry(k, p) == [key |-> k, path |-> p]

EventWords == {None, Str(AB)}

EventTexts == {None, Str(BB)}

ConfigMaps ==
    { <<>>,
      <<Entry(Str(A), "a.wav"), Entry(Str(AB), "b.wav")>>,
      <<Entry(Str(B), "a.wav"), Entry(Str(A), "b.wav")>>,
      <<Entry(None, "a.wav"), Entry(Str(<<>>), "b.wav")>>,
      <<Entry(Str(AB), "")>>,
      <<Entry(Str(BB), "a.wav")>> }

\* the arguments of one _play_audio_file(filepath, blocking) call
Request(p, b) == [path |-> p, blocking |-> b]

\* src.constants.constants.AbortReason.WAKE_WORD_DETECTED, as logged
CallIsSpeaking == "is_speaking()"

CallAbort == "abort_speaking(WAKE_WORD_DETECTED)"

CallGetPlugin == "plugins.get_plugin(audio)"

CallClear == "codec.clear_audio_queue()"

CallStart == "start_auto_conversation()"

(***************************************************************************)
(* Exceptions. A callee that fails raises a subclass of Exception; every   *)
(* place where one can come from is named, and the except clause that      *)
(* encloses the place decides whether the exception leaves the method.     *)
(***************************************************************************)
SiteImport == "import WakeWordDetector"

SiteCtor == "WakeWordDetector()"

SiteRegister == "detector.on_detected()"

SiteStart == "start: detector.start()"

SiteStop == "stop: detector.stop()"

SiteShutdown == "shutdown: detector.stop()"

SiteConfig == "get_config()"

SiteExecutor == "run_in_executor()"

SiteWinsound == "winsound.PlaySound()"

SiteSimpleaudio == "simpleaudio play()"

\* stop without its try statement
ExceptLine_NoTryInStop(site) == IF site = SiteStop THEN 0 ELSE 1

\* the line of the except clause that catches an Exception raised at a
\* place, 0 when no try statement encloses the place
ExceptLine(site) ==
    CASE site = SiteImport -> 37
      [] site \in {SiteCtor, SiteRegister} -> 40
      [] site = SiteStart -> 54
      [] site = SiteStop -> 61
      [] site = SiteShutdown -> 68
      [] site \in {CallIsSpeaking, CallAbort, CallGetPlugin, CallClear, CallStart} -> 85
      [] site \in {SiteConfig, SiteExecutor} -> 137
      [] site = SiteWinsound -> 171
      [] site = SiteSimpleaudio -> 183
      [] OTHER -> 0

\* the places, among those that raised, whose exception leaves the method
Uncaught(sites) == {site \in sites : ExceptLine(site) = 0}

(***************************************************************************)
(* The record of a lifecycle call: the method, how its callee ended (for   *)
(* setup, how setup went), the detector call it made ("none" when it made  *)
(* none), the argument of that call, the audio_codec the host had and      *)
(* whether the detector was running when the method was called.            *)
(***************************************************************************)
LifecycleCall(method, outcome, call, arg, codec, running) ==
    [method |-> method, outcome |-> outcome, call |-> call, arg |-> arg,
     codec |-> codec, was_running |-> running]

NoOp == LifecycleCall("none", "none", "none", "None", "None", FALSE)

DetectorStart == "detector.start"

DetectorStop == "detector.stop"

VARIABLES
    os_name,          \* os.name of the process
    app,              \* self.app
    detector,         \* self.detector: "None" or "detector"
    det_running,      \* the detector held by the plugin has been started
    on_detected_cb,   \* _on_detected is registered with the detector
    on_error_cb,      \* _on_error is registered with the detector
    err_reported,     \* the detector has just reported an error
    has_set_chat,     \* hasattr(app, "set_chat_message") at that error
    chat_messages,    \* calls of app.set_chat_message
    pc,               \* position of the running _on_detected ("idle": none)
    wake_word,        \* argument of _on_detected
    full_text,        \* argument of _on_detected
    has_device_state, \* hasattr(app, "device_state") at this event
    has_start_auto,   \* hasattr(app, "start_auto_conversation") at this event
    host_calls,       \* host calls made by this event, in call order
    pending_call,     \* the host call being awaited, "" when none
    speaking,         \* what is_speaking() returned: "unknown", "yes", "no"
    audio_plugin,     \* what get_plugin("audio") gave
    stage_a,          \* "none", "running", "noop", "ok", "failed"
    stage_b,          \* "none", "config_failed", "empty_map", "no_path",
                      \* "submit_failed", "submitted"
    audio_map,        \* ALERT_AUDIO_MAP as read by this event
    blocking_default, \* ALERT_AUDIO_BLOCKING as read by this event
    selected_path,    \* selected_path
    selected_idx,     \* the entry selected_path was taken from (0: none)
    requests,         \* the playback requests this event gave the executor
    awaited,          \* index in workers of the awaited playback (0: none)
    workers,          \* executor tasks running _play_audio_file
    n_events,         \* detection events handled so far
    last_op,          \* the lifecycle call made last, if none of _on_detected
                      \* came after it, and the detector call it made
    escaped           \* places whose exception left its method uncaught

hvars ==
    <<pc, wake_word, full_text, has_device_state, has_start_auto, host_calls,
      pending_call, speaking, audio_plugin, stage_a, stage_b, audio_map,
      blocking_default, selected_path, selected_idx, requests, awaited>>

lvars == <<app, detector, det_running, on_detected_cb, on_error_cb, last_op>>

evars == <<err_reported, has_set_chat, chat_messages>>

vars == <<os_name, lvars, evars, hvars, workers, n_events, escaped>>

(***************************************************************************)
(* The state after WakeWordPlugin.__init__ (lines 20-23).                  *)
(***************************************************************************)
InitPlugin ==
    /\ app = "None"
    /\ detector = "None"
    /\ det_running = FALSE
    /\ on_detected_cb = FALSE
    /\ on_error_cb = FALSE
    /\ err_reported = FALSE
    /\ has_set_chat = FALSE
    /\ chat_messages = <<>>
    /\ workers = <<>>
    /\ n_events = 0
    /\ last_op = NoOp
    /\ escaped = {}

InitArgs ==
    /\ wake_word = None
    /\ full_text = None
    /\ audio_map = <<>>

InitEvent ==
    /\ has_device_state = FALSE
    /\ has_start_auto = FALSE
    /\ host_calls = <<>>
    /\ pending_call = ""
    /\ speaking = "unknown"
    /\ audio_plugin = "unknown"
    /\ stage_a = "none"
    /\ stage_b = "none"
    /\ blocking_default = FALSE
    /\ selected_path = NoPath
    /\ selected_idx = 0
    /\ requests = <<>>
    /\ awaited = 0

Init ==
    /\ os_name \in {"nt", "posix"}
    /\ InitPlugin
    /\ InitArgs
    /\ InitEvent
    /\ pc = "idle"

(***************************************************************************)
(* The plugin lifecycle shell (lines 25-69). The lifecycle methods are     *)
(* called by the plugin manager between detection events.                  *)
(***************************************************************************)
Quiescent == pc = "idle"

SetupOutcomes == {"import_error", "ctor_raises", "disabled", "register_raises", "ok"}

\* lines 28-36: the place where a failing setup raised
SetupRaised(outcome) ==
    IF outcome = "import_error" THEN {SiteImport}
    ELSE IF outcome = "ctor_raises" THEN {SiteCtor}
    ELSE IF outcome = "register_raises" THEN {SiteRegister}
    ELSE {}

\* setup (lines 25-42): only a detector that was imported, constructed,
\* found enabled and given the callback is kept; the new detector is not started.
Setup(outcome) ==
    /\ Quiescent
    /\ app' = "app"
    /\ detector' = IF outcome = "ok" THEN "detector" ELSE "None"
    /\ on_detected_cb' = (outcome = "ok")
    /\ det_running' = FALSE
    /\ last_op' = LifecycleCall("setup", outcome, "none", "None", "None",
                                det_running)
    /\ escaped' = escaped \cup Uncaught(SetupRaised(outcome))
    /\ UNCHANGED <<on_error_cb, os_name, evars, hvars, workers, n_events>>

\* start without the test of line 45
StartCall_NoDetectorTest(det, audio_codec) ==
    IF audio_codec = "None" THEN "none" ELSE DetectorStart

\* lines 45-53: the detector call start makes
StartCall(det, audio_codec) ==
    IF det = "None" THEN "none"
    ELSE IF audio_codec = "None" THEN "none"
    ELSE DetectorStart

\* line 53 with no argument for the detector
StartArg_Nothing(audio_codec) == "None"

\* line 53: what detector.start is given
StartArg(audio_codec) == audio_codec

\* start (lines 44-55); audio_codec is getattr(self.app, "audio_codec", None)
\* and outcome what detector.start does when called
Start(audio_codec, outcome) ==
    /\ Quiescent
    /\ IF StartCall(detector, audio_codec) = DetectorStart
       THEN /\ det_running' = IF outcome = "ok" THEN TRUE ELSE det_running
            /\ last_op' = LifecycleCall("start", outcome, DetectorStart,
                                        StartArg(audio_codec), audio_codec,
                                        det_running)
            /\ escaped' = escaped \cup
                             Uncaught(IF outcome = "raise" THEN {SiteStart} ELSE {})
       ELSE /\ last_op' = LifecycleCall("start", "none", "none", "None",
                                        audio_codec, det_running)
            /\ UNCHANGED <<det_running, escaped>>
    /\ UNCHANGED <<app, detector, on_detected_cb, on_error_cb, os_name, evars,
                   hvars, workers, n_events>>

\* lines 58-60: the detector call stop makes
StopCall(det) == IF det # "None" THEN DetectorStop ELSE "none"

\* stop (lines 57-62); outcome is what detector.stop does when called
Stop(outcome) ==
    /\ Quiescent
    /\ IF StopCall(detector) = DetectorStop
       THEN /\ det_running' = IF outcome = "ok" THEN FALSE ELSE det_running
            /\ escaped' = escaped \cup
                             Uncaught(IF outcome = "raise" THEN {SiteStop} ELSE {})
       ELSE UNCHANGED <<det_running, escaped>>
    /\ last_op' = LifecycleCall("stop",
                                IF StopCall(detector) = DetectorStop
                                THEN outcome ELSE "none",
                                StopCall(detector), "None", "None", det_running)
    /\ UNCHANGED <<app, detector, on_detected_cb, on_error_cb, os_name, evars,
                   hvars, workers, n_events>>

\* lines 65-67: the detector call shutdown makes
ShutdownCall(det) == IF det # "None" THEN DetectorStop ELSE "none"

\* shutdown (lines 64-69); outcome is what detector.stop does when called
Shutdown(outcome) ==
    /\ Quiescent
    /\ IF ShutdownCall(detector) = DetectorStop
       THEN /\ det_running' = IF outcome = "ok" THEN FALSE ELSE det_running
            /\ escaped' = escaped \cup
                             Uncaught(IF outcome = "raise" THEN {SiteShutdown} ELSE {})
       ELSE UNCHANGED <<det_running, escaped>>
    /\ last_op' = LifecycleCall("shutdown",
                                IF ShutdownCall(detector) = DetectorStop
                                THEN outcome ELSE "none",
                                ShutdownCall(detector), "None", "None",
                                det_running)
    /\ UNCHANGED <<app, detector, on_detected_cb, on_error_cb, os_name, evars,
                   hvars, workers, n_events>>

(***************************************************************************)
(* The error callback (lines 189-195). The def sits in the body of the     *)
(* module-level function _play_audio_file, after its try statement: it is  *)
(* a local function of _play_audio_file, not a method of the plugin, and   *)
(* setup registers on_detected only (line 36), so on_error_cb never        *)
(* becomes TRUE.                                                           *)
(***************************************************************************)
OnError(hsc, msgs) ==
    IF hsc
    THEN Append(msgs, [role |-> "assistant", text |-> "[wake word error] error"])
    ELSE msgs

\* the detector reports an error to the error callbacks registered with it
DetectorError(hsc) ==
    /\ detector # "None"
    /\ det_running
    /\ Quiescent
    /\ pc' = "error_reported"
    /\ err_reported' = TRUE
    /\ has_set_chat' = hsc
    /\ chat_messages' = IF on_error_cb THEN OnError(hsc, chat_messages) ELSE chat_messages
    /\ UNCHANGED <<wake_word, full_text, has_device_state, has_start_auto,
                   host_calls, pending_call, speaking, audio_plugin, stage_a,
                   stage_b, audio_map, blocking_default, selected_path,
                   selected_idx, requests, awaited>>
    /\ UNCHANGED <<os_name, lvars, workers, n_events, escaped>>

\* the detector goes on after the report
ErrorReturn ==
    /\ pc = "error_reported"
    /\ pc' = "idle"
    /\ err_reported' = FALSE
    /\ has_set_chat' = FALSE
    /\ UNCHANGED <<wake_word, full_text, has_device_state, has_start_auto,
                   host_calls, pending_call, speaking, audio_plugin, stage_a,
                   stage_b, audio_map, blocking_default, selected_path,
                   selected_idx, requests, awaited>>
    /\ UNCHANGED <<chat_messages, os_name, lvars, workers, n_events, escaped>>

(***************************************************************************)
(* _on_detected (lines 71-138), one action per stretch of code between two *)
(* awaits. One call of _on_detected is followed at a time: the calls share *)
(* no state of the plugin (the handler reads self.app only), and the tasks *)
(* of earlier events go on running in the executor meanwhile.              *)
(***************************************************************************)
InFlight(ws) == SelectSeq(ws, LAMBDA w : w.st # "finished")

\* the locals of _on_detected and the record of its calls, before any
\* statement of it has run
ClearEvent ==
    /\ host_calls' = <<>>
    /\ pending_call' = ""
    /\ speaking' = "unknown"
    /\ audio_plugin' = "unknown"
    /\ stage_b' = "none"
    /\ audio_map' = <<>>
    /\ blocking_default' = FALSE
    /\ selected_path' = NoPath
    /\ selected_idx' = 0
    /\ requests' = <<>>
    /\ awaited' = 0

\* the detector fires: _on_detected(wake_word, full_text) starts
Detect(ww, ft, hds, hsa) ==
    /\ detector # "None"
    /\ det_running
    /\ on_detected_cb
    /\ pc \in {"idle", "done"}
    /\ n_events < MaxEvents
    /\ n_events' = n_events + 1
    /\ pc' = "stage_a"
    /\ wake_word' = ww
    /\ full_text' = ft
    /\ has_device_state' = hds
    /\ has_start_auto' = hsa
    /\ stage_a' = "running"
    /\ ClearEvent
    /\ workers' = InFlight(workers)
    /\ last_op' = NoOp
    /\ UNCHANGED <<os_name, app, detector, det_running, on_detected_cb,
                   on_error_cb, evars, escaped>>

\* where _on_detected goes once Stage A has ended, normally or in the
\* handler of line 85
AfterStageA == "stage_b"

\* one try around both stages: an exception of Stage A ends _on_detected
AfterStageAError_Skip == "done"

\* lines 85-86: the handler of Stage A's try logs the exception and falls
\* through to Stage B
AfterStageAError == "stage_b"

\* the test of line 78 negated
FirstCall_Inverted(spk) == IF spk = "no" THEN CallAbort ELSE CallStart

\* lines 78-84: the call made once is_speaking() has answered
FirstCall(spk) == IF spk = "yes" THEN CallAbort ELSE CallStart

\* the test of lines 75-77 with "or" for "and"
HostCapable_Either(hds, hsa) == hds \/ hsa

\* lines 75-77: the host has both device_state and start_auto_conversation
HostCapable(hds, hsa) == hds /\ hsa

\* lines 79 and 84 without their await: the coroutine is left behind and
\* _on_detected goes on
AwaitHost_NotAwaited == "stage_b"

\* lines 79, 82, 84: _on_detected is suspended until the host call has ended
AwaitHost == "await_host"

\* lines 75-84 up to the first await: the capability test, is_speaking(),
\* and the call of abort_speaking or start_auto_conversation
StageABegin(spk) ==
    /\ pc = "stage_a"
    /\ IF ~HostCapable(has_device_state, has_start_auto)
       THEN /\ stage_a' = "noop"
            /\ pc' = AfterStageA
            /\ UNCHANGED <<host_calls, pending_call, speaking, escaped>>
       ELSE IF spk = "raise"
       THEN /\ host_calls' = Append(host_calls, CallIsSpeaking)
            /\ stage_a' = "failed"
            /\ pc' = AfterStageAError
            /\ escaped' = escaped \cup Uncaught({CallIsSpeaking})
            /\ UNCHANGED <<pending_call, speaking>>
       ELSE /\ host_calls' = host_calls \o <<CallIsSpeaking, FirstCall(spk)>>
            /\ speaking' = spk
            /\ pending_call' = FirstCall(spk)
            /\ pc' = AwaitHost
            /\ UNCHANGED <<stage_a, escaped>>
    /\ UNCHANGED <<wake_word, full_text, has_device_state, has_start_auto,
                   audio_plugin, stage_b, audio_map, blocking_default,
                   selected_path, selected_idx, requests, awaited>>
    /\ UNCHANGED <<os_name, lvars, evars, workers, n_events>>

\* what plugins.get_plugin("audio") does: it raises, returns None, returns a
\* plugin whose codec is falsy, or returns a plugin with a codec
PluginOutcomes == {"raise", "none", "no_codec", "codec"}

\* lines 80-82 left out: the audio queue is never cleared
HasCodec_Never(plug) == FALSE

\* line 81: audio_plugin and audio_plugin.codec
HasCodec(plug) == plug = "codec"

\* lines 79-82: abort_speaking has ended; on a normal return the audio
\* plugin is looked up and, with a codec, clear_audio_queue is called
AbortDone(out, plug) ==
    /\ pc = "await_host"
    /\ pending_call = CallAbort
    /\ IF out = "raise"
       THEN /\ stage_a' = "failed"
            /\ pending_call' = ""
            /\ pc' = AfterStageAError
            /\ escaped' = escaped \cup Uncaught({CallAbort})
            /\ UNCHANGED <<host_calls, audio_plugin>>
       ELSE IF HasCodec(plug)
       THEN /\ host_calls' = host_calls \o <<CallGetPlugin, CallClear>>
            /\ audio_plugin' = plug
            /\ pending_call' = CallClear
            /\ pc' = AwaitHost
            /\ UNCHANGED <<stage_a, escaped>>
       ELSE /\ host_calls' = Append(host_calls, CallGetPlugin)
            /\ audio_plugin' = plug
            /\ stage_a' = IF plug = "raise" THEN "failed" ELSE "ok"
            /\ pending_call' = ""
            /\ pc' = IF plug = "raise" THEN AfterStageAError ELSE AfterStageA
            /\ escaped' = escaped \cup
                             Uncaught(IF plug = "raise" THEN {CallGetPlugin} ELSE {})
    /\ UNCHANGED <<wake_word, full_text, has_device_state, has_start_auto,
                   speaking, stage_b, audio_map, blocking_default,
                   selected_path, selected_idx, requests, awaited>>
    /\ UNCHANGED <<os_name, lvars, evars, workers, n_events>>

\* lines 82, 84-86: clear_audio_queue or start_auto_conversation has ended;
\* an exception is logged and swallowed (line 85), then Stage B starts
LastCallDone(out) ==
    /\ pc = "await_host"
    /\ pending_call \in {CallClear, CallStart}
    /\ stage_a' = IF out = "raise" THEN "failed" ELSE "ok"
    /\ pending_call' = ""
    /\ pc' = IF out = "raise" THEN AfterStageAError ELSE AfterStageA
    /\ escaped' = escaped \cup
                     Uncaught(IF out = "raise" THEN {pending_call} ELSE {})
    /\ UNCHANGED <<wake_word, full_text, has_device_state, has_start_auto,
                   host_calls, speaking, audio_plugin, stage_b, audio_map,
                   blocking_default, selected_path, selected_idx, requests,
                   awaited>>
    /\ UNCHANGED <<os_name, lvars, evars, workers, n_events>>

\* line 134's else left out: the blocking branch runs into the other one
Dispatch_NoElse(sel, blk) ==
    IF ~TruthyPath(sel) THEN <<>>
    ELSE IF blk THEN <<Request(sel.val, TRUE), Request(sel.val, FALSE)>>
    ELSE <<Request(sel.val, FALSE)>>

\* line 136 left out: only the blocking branch hands the call over
Dispatch_BlockingOnly(sel, blk) ==
    IF ~TruthyPath(sel) THEN <<>>
    ELSE IF blk THEN <<Request(sel.val, TRUE)>>
    ELSE <<>>

\* lines 129-136: the _play_audio_file calls handed to the executor for a
\* selected path: one when the path is truthy, with the literal blocking flag
\* of the branch taken
Dispatch(sel, blk) ==
    IF ~TruthyPath(sel) THEN <<>>
    ELSE IF blk THEN <<Request(sel.val, TRUE)>>
    ELSE <<Request(sel.val, FALSE)>>

\* an executor task about to run _play_audio_file(path, blocking)
NewWorker(req) ==
    [path |-> req.path, blocking |-> req.blocking, st |-> "queued",
     exists |-> "unknown", tiers |-> <<>>, failed |-> <<>>, result |-> "none"]

NewWorkers(reqs) == [i \in DOMAIN reqs |-> NewWorker(reqs[i])]

\* line 133 without its await
AfterDispatch_NoAwait(reqs, blk) == "done"

\* line 133 awaits the future of the blocking branch; line 136 drops it
AfterDispatch(reqs, blk) == IF reqs # <<>> /\ blk THEN "await_play" ELSE "done"

\* line 94 left out: the resolver runs on every map
MapTruthy_Always(m) == TRUE

\* line 94: a map with no entry is falsy
MapTruthy(m) == m # <<>>

\* lines 89-138 up to the await of line 133: the configuration is read, the
\* path resolved and the playback handed to the executor. cfg and ex are
\* what the configuration lookup and run_in_executor do ("ok" or "raise").
StageB(cfg, m, blk, ex) ==
    /\ pc = "stage_b"
    /\ IF cfg = "raise"
       THEN /\ stage_b' = "config_failed"
            /\ pc' = "done"
            /\ escaped' = escaped \cup Uncaught({SiteConfig})
            /\ UNCHANGED <<audio_map, blocking_default, selected_path,
                           selected_idx, requests, awaited, workers>>
       ELSE /\ audio_map' = m
            /\ blocking_default' = blk
            /\ IF ~MapTruthy(m)
               THEN /\ stage_b' = "empty_map"
                    /\ pc' = "done"
                    /\ UNCHANGED <<selected_path, selected_idx, requests,
                                   awaited, workers, escaped>>
               ELSE /\ selected_idx' = ResolveIdx(wake_word, full_text, m)
                    /\ selected_path' = Resolve(wake_word, full_text, m)
                    /\ LET reqs == Dispatch(Resolve(wake_word, full_text, m), blk)
                       IN  IF reqs = <<>>
                           THEN /\ stage_b' = "no_path"
                                /\ pc' = "done"
                                /\ UNCHANGED <<requests, awaited, workers,
                                               escaped>>
                           ELSE IF ex = "raise"
                           THEN /\ stage_b' = "submit_failed"
                                /\ pc' = "done"
                                /\ escaped' = escaped \cup Uncaught({SiteExecutor})
                                /\ UNCHANGED <<requests, awaited, workers>>
                           ELSE /\ stage_b' = "submitted"
                                /\ requests' = reqs
                                /\ workers' = workers \o NewWorkers(reqs)
                                /\ awaited' = IF blk THEN Len(workers) + 1 ELSE 0
                                /\ pc' = AfterDispatch(reqs, blk)
                                /\ UNCHANGED escaped
    /\ UNCHANGED <<wake_word, full_text, has_device_state, has_start_auto,
                   host_calls, pending_call, speaking, audio_plugin, stage_a>>
    /\ UNCHANGED <<os_name, lvars, evars, n_events>>

\* line 133: the awaited future completes when its task has finished
PlayAwaitDone ==
    /\ pc = "await_play"
    /\ workers[awaited].st = "finished"
    /\ pc' = "done"
    /\ awaited' = 0
    /\ UNCHANGED <<wake_word, full_text, has_device_state, has_start_auto,
                   host_calls, pending_call, speaking, audio_plugin, stage_a,
                   stage_b, audio_map, blocking_default, selected_path,
                   selected_idx, requests>>
    /\ UNCHANGED <<os_name, lvars, evars, workers, n_events, escaped>>

\* _on_detected has returned (line 138): its frame is gone
Return ==
    /\ pc = "done"
    /\ pc' = "idle"
    /\ wake_word' = None
    /\ full_text' = None
    /\ has_device_state' = FALSE
    /\ has_start_auto' = FALSE
    /\ stage_a' = "none"
    /\ ClearEvent
    /\ UNCHANGED <<os_name, lvars, evars, workers, n_events, escaped>>

(***************************************************************************)
(* _play_audio_file (lines 141-188), run by an executor thread.            *)
(***************************************************************************)
\* line 170 left out: simpleaudio is tried after winsound has played
PlayTiers_NoReturn(os, winsound_ok, simpleaudio_ok) ==
    IF os = "nt" THEN <<"winsound", "simpleaudio">>
    ELSE <<"simpleaudio">>

\* lines 162-186: the tiers attempted for an existing file, in order, given
\* whether winsound and simpleaudio would play it
PlayTiers(os, winsound_ok, simpleaudio_ok) ==
    IF os = "nt" /\ winsound_ok THEN <<"winsound">>
    ELSE IF os = "nt" THEN <<"winsound", "simpleaudio">>
    ELSE <<"simpleaudio">>

\* lines 148-188: how the call ends
PlayResult(path, exists, os, winsound_ok, simpleaudio_ok) ==
    IF path = "" THEN "empty_path"
    ELSE IF ~exists THEN "no_file"
    ELSE IF os = "nt" /\ winsound_ok THEN "played"
    ELSE IF simpleaudio_ok THEN "played"
    ELSE "exhausted"

\* the test of line 158 left out: a missing file is handed to the tiers
PlayAttempts_NoExistsTest(path, exists, os, winsound_ok, simpleaudio_ok) ==
    IF path = "" THEN <<>>
    ELSE PlayTiers(os, winsound_ok, simpleaudio_ok)

\* lines 149-160, then 162-186: no tier is attempted for an empty path or
\* for a file that does not exist
PlayAttempts(path, exists, os, winsound_ok, simpleaudio_ok) ==
    IF path = "" \/ ~exists THEN <<>>
    ELSE PlayTiers(os, winsound_ok, simpleaudio_ok)

\* lines 171 and 183: the attempted tiers that raised, in order
PlayFailed(path, exists, os, winsound_ok, simpleaudio_ok) ==
    SelectSeq(PlayAttempts(path, exists, os, winsound_ok, simpleaudio_ok),
              LAMBDA t : \/ t = "winsound" /\ ~winsound_ok
                         \/ t = "simpleaudio" /\ ~simpleaudio_ok)

TiersOf(seq) == {seq[k] : k \in DOMAIN seq}

\* the place a tier raises at
TierSite(t) == IF t = "winsound" THEN SiteWinsound ELSE SiteSimpleaudio

\* one run of _play_audio_file by the executor task i, from its call to its
\* return; the function shares no state with the rest of the program
PlayAudioFile(i, exists, winsound_ok, simpleaudio_ok) ==
    /\ workers[i].st = "queued"
    /\ workers' =
          [workers EXCEPT ![i] =
              [@ EXCEPT
                 !.st = "finished",
                 !.exists = IF exists THEN "yes" ELSE "no",
                 !.result = PlayResult(workers[i].path, exists, os_name,
                                       winsound_ok, simpleaudio_ok),
                 !.tiers = PlayAttempts(workers[i].path, exists, os_name,
                                        winsound_ok, simpleaudio_ok),
                 !.failed = PlayFailed(workers[i].path, exists, os_name,
                                       winsound_ok, simpleaudio_ok)]]
    /\ escaped' = escaped \cup
                     Uncaught({TierSite(t) : t \in
                                 TiersOf(PlayFailed(workers[i].path, exists,
                                                    os_name, winsound_ok,
                                                    simpleaudio_ok))})
    /\ UNCHANGED <<os_name, lvars, evars, hvars, n_events>>

Outcomes == {"ok", "raise"}

\* getattr(self.app, "audio_codec", None) (line 49): no codec, or one of two
HostCodecs == {"None", "codec", "codec2"}

Next ==
    \/ \E o \in SetupOutcomes : Setup(o)
    \/ \E c \in HostCodecs, o \in Outcomes : Start(c, o)
    \/ \E o \in Outcomes : Stop(o)
    \/ \E o \in Outcomes : Shutdown(o)
    \/ \E hsc \in BOOLEAN : DetectorError(hsc)
    \/ ErrorReturn
    \/ \E ww \in EventWords, ft \in EventTexts, hds \in BOOLEAN, hsa \in BOOLEAN :
          Detect(ww, ft, hds, hsa)
    \/ \E spk \in {"yes", "no", "raise"} : StageABegin(spk)
    \/ \E o \in Outcomes, plug \in PluginOutcomes : AbortDone(o, plug)
    \/ \E o \in Outcomes : LastCallDone(o)
    \/ \E cfg \in Outcomes, m \in ConfigMaps, blk \in BOOLEAN, ex \in Outcomes :
          StageB(cfg, m, blk, ex)
    \/ PlayAwaitDone
    \/ Return
    \/ \E i \in DOMAIN workers, e \in BOOLEAN, wok \in BOOLEAN, sok \in BOOLEAN :
          PlayAudioFile(i, e, wok, sok)

Spec == Init /\ [][Next]_vars

(***************************************************************************)
(* The resolver alone, on every event and map within the bounds.           *)
(***************************************************************************)
InitResolve ==
    /\ os_name = "posix"
    /\ InitPlugin
    /\ InitEvent
    /\ wake_word \in OptStrings
    /\ full_text \in OptStrings
    /\ audio_map \in Maps
    /\ pc = "resolver_call"

ResolveCall ==
    /\ pc = "resolver_call"
    /\ selected_idx' = ResolveIdx(wake_word, full_text, audio_map)
    /\ selected_path' = Resolve(wake_word, full_text, audio_map)
    /\ pc' = "resolver_returned"
    /\ UNCHANGED <<wake_word, full_text, has_device_state, has_start_auto,
                   host_calls, pending_call, speaking, audio_plugin, stage_a,
                   stage_b, audio_map, blocking_default, requests, awaited>>
    /\ UNCHANGED <<os_name, lvars, evars, workers, n_events, escaped>>

NextResolve == ResolveCall

SpecResolve == InitResolve /\ [][NextResolve]_vars

(***************************************************************************)
(* _play_audio_file alone, on every path and flag: the executor holds up   *)
(* to MaxEvents calls, the empty path among them, and runs them.           *)
(***************************************************************************)
PlayPaths == {"", "a.wav", "b.wav"}

PlayCalls == {NewWorker(Request(p, b)) : p \in PlayPaths, b \in BOOLEAN}

InitPlay ==
    /\ os_name \in {"nt", "posix"}
    /\ app = "None"
    /\ detector = "None"
    /\ det_running = FALSE
    /\ on_detected_cb = FALSE
    /\ on_error_cb = FALSE
    /\ err_reported = FALSE
    /\ has_set_chat = FALSE
    /\ chat_messages = <<>>
    /\ n_events = 0
    /\ last_op = NoOp
    /\ escaped = {}
    /\ InitArgs
    /\ InitEvent
    /\ pc = "executor"
    /\ workers \in UNION {[1..n -> PlayCalls] : n \in 1..MaxEvents}

NextPlay ==
    \E i \in DOMAIN workers, e \in BOOLEAN, wok \in BOOLEAN, sok \in BOOLEAN :
       PlayAudioFile(i, e, wok, sok)

SpecPlay == InitPlay /\ [][NextPlay]_vars

(***************************************************************************)
(* Properties.                                                             *)
(***************************************************************************)
Range(f) == {f[i] : i \in DOMAIN f}

\* position of the first x in seq, 0 when there is none
IndexOf(seq, x) ==
    IF x \in Range(seq) THEN CHOOSE i \in DOMAIN seq : seq[i] = x /\ \A j \in 1..(i - 1) : seq[j] # x
    ELSE 0

Least(S) == IF S = {} THEN 0 ELSE CHOOSE i \in S : \A j \in S : i <= j

Capable == has_device_state /\ has_start_auto

StageAEnded == pc \in {"stage_b", "await_play", "done"}

\* the text the keys are compared with: wake_word, "" when it is null
WakeText == IF wake_word.isNone THEN <<>> ELSE wake_word.val

\* entries whose key is the wake word, is part of the wake word, is part of
\* a non-empty full_text
ExactKeys == {i \in DOMAIN audio_map : ~audio_map[i].key.isNone /\ audio_map[i].key.val = WakeText}

WakeWordKeys ==
    {i \in DOMAIN audio_map :
        ~audio_map[i].key.isNone /\ IsSubstring(audio_map[i].key.val, WakeText)}

FullTextKeys ==
    {i \in DOMAIN audio_map :
        /\ ~audio_map[i].key.isNone
        /\ ~full_text.isNone
        /\ full_text.val # <<>>
        /\ IsSubstring(audio_map[i].key.val, full_text.val)}

Selects(i) == selected_idx = i /\ selected_path = SomePath(audio_map[i].path)

Resolved == pc = "resolver_returned"

\* C1: when the host is capable and is_speaking() returned true, abort_speaking
\* (WAKE_WORD_DETECTED) is called; clear_audio_queue is called only after
\* abort_speaking has completed, and is called whenever get_plugin("audio")
\* gave a plugin with a codec; start_auto_conversation is never called.
C1_AbortThenClear ==
    (Capable /\ speaking = "yes") =>
        /\ IndexOf(host_calls, CallAbort) = 2
        /\ CallStart \notin Range(host_calls)
        /\ CallClear \in Range(host_calls) =>
              /\ IndexOf(host_calls, CallAbort) < IndexOf(host_calls, CallClear)
              /\ pending_call # CallAbort
        /\ (StageAEnded /\ audio_plugin = "codec") => CallClear \in Range(host_calls)
        /\ (StageAEnded /\ audio_plugin # "codec") => CallClear \notin Range(host_calls)

C1_Witness ==
    /\ pc = "done"
    /\ speaking = "yes"
    /\ stage_a = "ok"
    /\ host_calls = <<CallIsSpeaking, CallAbort, CallGetPlugin, CallClear>>

\* C2: when the host is capable and is_speaking() returned false, Stage A
\* calls start_auto_conversation() exactly once and makes no other call:
\* abort_speaking, get_plugin and clear_audio_queue are never called.
C2_StartOnly ==
    (Capable /\ speaking = "no") => host_calls = <<CallIsSpeaking, CallStart>>

C2_Witness ==
    /\ pc = "done"
    /\ speaking = "no"
    /\ stage_a = "ok"
    /\ host_calls = <<CallIsSpeaking, CallStart>>

\* the requests Stage B hands over for the event and the configuration it
\* read, by the rules of the resolver: the exact key first, else the first
\* key found in wake_word or in a non-empty full_text
RuleIdx == IF ExactKeys # {} THEN Least(ExactKeys) ELSE Least(WakeWordKeys \cup FullTextKeys)

RuleRequests ==
    IF stage_b \in {"config_failed", "submit_failed"} THEN <<>>
    ELSE IF RuleIdx = 0 THEN <<>>
    ELSE IF audio_map[RuleIdx].path = "" THEN <<>>
    ELSE <<Request(audio_map[RuleIdx].path, blocking_default)>>

\* C3: whatever Stage A did, and in particular when one of its host calls
\* raised, Stage B has run when _on_detected returns, and the playback request
\* it dispatched (path and blocking flag, or none) is the one that the event
\* and the configuration alone decide.
C3_StageBStillRuns ==
    (pc = "done") => (stage_b # "none" /\ requests = RuleRequests)

C3_Witness ==
    /\ pc = "done"
    /\ stage_a = "failed"
    /\ stage_b = "submitted"
    /\ requests # <<>>

\* C4: when the detector reports an error after a successful setup and the
\* host has set_chat_message, set_chat_message("assistant", ...) is called.
C4_ErrorSurfaced ==
    (pc = "error_reported" /\ err_reported /\ has_set_chat) =>
        (chat_messages # <<>> /\ chat_messages[Len(chat_messages)].role = "assistant")

\* C5, as stated: with no exact key and some key part of wake_word, the first
\* key that is part of wake_word is selected, for every full_text.
C5_FirstWakeWordKey ==
    (Resolved /\ ExactKeys = {} /\ WakeWordKeys # {}) => Selects(Least(WakeWordKeys))

\* C5, amended: with no exact key and some key part of wake_word, the first
\* key that is part of wake_word or of a non-empty full_text is selected; it
\* is the first key that is part of wake_word when no earlier key is part of
\* full_text.
C5_FirstSubstringKey ==
    (Resolved /\ ExactKeys = {} /\ WakeWordKeys # {}) =>
        /\ Selects(Least(WakeWordKeys \cup FullTextKeys))
        /\ (\A j \in FullTextKeys : j >= Least(WakeWordKeys)) => Selects(Least(WakeWordKeys))

C5_Witness ==
    /\ Resolved
    /\ ExactKeys = {}
    /\ WakeWordKeys = {2}
    /\ FullTextKeys = {}
    /\ Len(audio_map) = 2
    /\ Selects(2)

\* C6: when a key equals wake_word, that key's path is selected, whatever
\* other keys, earlier or later, are part of wake_word or of full_text.
C6_ExactKeyWins ==
    (Resolved /\ ~wake_word.isNone) =>
        \A i \in DOMAIN audio_map : audio_map[i].key = wake_word => Selects(i)

C6_Witness ==
    /\ Resolved
    /\ ~wake_word.isNone
    /\ Len(audio_map) = 2
    /\ audio_map[2].key = wake_word
    /\ 1 \in WakeWordKeys
    /\ 1 \in FullTextKeys
    /\ Selects(2)

\* C7: an entry whose key is null or the empty string is never the entry
\* selected.
C7_NullAndEmptyKeysSkipped ==
    (Resolved /\ selected_idx # 0) =>
        /\ ~audio_map[selected_idx].key.isNone
        /\ audio_map[selected_idx].key.val # <<>>

\* C8: when no key equals or is part of wake_word and some key is part of a
\* non-empty full_text, the first key that is part of full_text is selected.
C8_FullTextKey ==
    (Resolved /\ ExactKeys = {} /\ WakeWordKeys = {} /\ FullTextKeys # {}) =>
        Selects(Least(FullTextKeys))

C8_Witness ==
    /\ Resolved
    /\ ExactKeys = {}
    /\ WakeWordKeys = {}
    /\ FullTextKeys = {2}
    /\ ~wake_word.isNone
    /\ audio_map[1].key.isNone
    /\ Selects(2)

\* C9: one run of _on_detected hands at most one _play_audio_file call to
\* the executor, even when several keys match.
C9_AtMostOneRequest ==
    /\ Len(requests) <= 1
    /\ Len(workers) <= n_events

C9_Witness ==
    /\ pc = "done"
    /\ Len(requests) = 1
    /\ Cardinality(WakeWordKeys \cup FullTextKeys) >= 2

\* the executor task of the request this event dispatched
EventWorker == workers[Len(workers)]

\* C10: with ALERT_AUDIO_BLOCKING true, _on_detected has not returned while
\* the playback it dispatched is unfinished; with the flag false it never
\* waits for the playback.
C10_BlockingWaits ==
    /\ (pc = "done" /\ stage_b = "submitted" /\ blocking_default) =>
          EventWorker.st = "finished"
    /\ (pc = "await_play") =>
          (blocking_default /\ stage_b = "submitted" /\ awaited = Len(workers))
    /\ (stage_b = "submitted" /\ ~blocking_default) => awaited = 0

\* with the flag false, _on_detected has returned and the playback it
\* dispatched has not finished
C10_Witness ==
    /\ pc = "done"
    /\ stage_b = "submitted"
    /\ ~blocking_default
    /\ EventWorker.st = "queued"

\* C11: no exception raised by the detector, the host application, the
\* configuration lookup, run_in_executor or a playback tier leaves setup,
\* start, stop, shutdown, _on_detected or _play_audio_file: each is caught
\* by an except clause of the method it was raised in.
C11_NothingEscapes == escaped = {}

\* both stages of an event have failed and a playback has run out of tiers
C11_Witness ==
    /\ pc = "done"
    /\ stage_a = "failed"
    /\ stage_b = "submit_failed"
    /\ \E i \in DOMAIN workers : workers[i].result = "exhausted"

\* C12: a setup that failed (import error, constructor or registration
\* raising, detector not enabled) leaves the plugin without a detector, and
\* without a detector start, stop and shutdown call neither detector.start
\* nor detector.stop, however many of them are called and in whatever order.
C12_FailedSetupDisables ==
    /\ (last_op.method = "setup" /\ last_op.outcome # "ok") =>
          (detector = "None" /\ ~on_detected_cb)
    /\ (detector = "None" /\ last_op.method \in {"start", "stop", "shutdown"}) =>
          (last_op.call = "none" /\ last_op.outcome = "none")
    /\ detector = "None" => ~det_running

\* start is called with a codec at hand after a setup that failed
C12_Witness ==
    /\ app = "app"
    /\ detector = "None"
    /\ last_op.method = "start"
    /\ last_op.codec = "codec"

\* the tiers of a finished call, as a set
Attempted(w) == TiersOf(w.tiers)

Failed(w) == TiersOf(w.failed)

\* C13: for a file that exists, winsound is attempted exactly when the
\* platform is Windows, and simpleaudio exactly when winsound was not
\* attempted or was attempted and failed; winsound comes first; no tier is
\* attempted after one that succeeded; when every attempted tier has failed
\* the call ends normally, with nothing played.
C13_TiersInOrder ==
    \A i \in DOMAIN workers :
       (workers[i].st = "finished" /\ workers[i].path # "" /\
        workers[i].exists = "yes") =>
          /\ ("winsound" \in Attempted(workers[i])) <=> (os_name = "nt")
          /\ ("simpleaudio" \in Attempted(workers[i])) <=>
                (os_name # "nt" \/ "winsound" \in Failed(workers[i]))
          /\ workers[i].tiers \in {<<"winsound">>, <<"simpleaudio">>,
                                   <<"winsound", "simpleaudio">>}
          /\ \A k \in 1..(Len(workers[i].tiers) - 1) :
                workers[i].tiers[k] \in Failed(workers[i])
          /\ (workers[i].result = "played") <=>
                (workers[i].tiers[Len(workers[i].tiers)] \notin Failed(workers[i]))
          /\ (workers[i].result = "exhausted") <=>
                (Attempted(workers[i]) = Failed(workers[i]))
          /\ escaped = {}

\* winsound has failed and simpleaudio has played the file
C13_Witness ==
    \E i \in DOMAIN workers :
       /\ workers[i].st = "finished"
       /\ workers[i].tiers = <<"winsound", "simpleaudio">>
       /\ workers[i].failed = <<"winsound">>
       /\ workers[i].result = "played"

\* C14: a call whose path is empty, or whose file does not exist, ends
\* without attempting a tier and without raising.
C14_MissingFileNoTier ==
    \A i \in DOMAIN workers :
       (workers[i].st = "finished" /\
        (workers[i].path = "" \/ workers[i].exists = "no")) =>
          /\ workers[i].tiers = <<>>
          /\ workers[i].failed = <<>>
          /\ workers[i].result =
                (IF workers[i].path = "" THEN "empty_path" ELSE "no_file")
          /\ escaped = {}

\* one call with the empty path and one for a missing file have ended
C14_Witness ==
    \E i \in DOMAIN workers, j \in DOMAIN workers :
       /\ workers[i].st = "finished"
       /\ workers[i].path = ""
       /\ workers[j].st = "finished"
       /\ workers[j].path # ""
       /\ workers[j].exists = "no"

\* C15: on a host without device_state or without start_auto_conversation,
\* Stage A makes no host call at all, and Stage B runs all the same.
C15_IncapableHostNoCall ==
    (stage_a # "none" /\ ~Capable) =>
       /\ host_calls = <<>>
       /\ pending_call = ""
       /\ speaking = "unknown"
       /\ audio_plugin = "unknown"
       /\ stage_a \in {"running", "noop"}
       /\ (stage_a = "noop") => StageAEnded
       /\ (pc = "done") => (stage_b # "none" /\ requests = RuleRequests)

\* a host with one of the two attributes only, and a cue dispatched
C15_Witness ==
    /\ pc = "done"
    /\ has_device_state # has_start_auto
    /\ stage_a = "noop"
    /\ stage_b = "submitted"

\* C16: with an empty ALERT_AUDIO_MAP Stage B ends at the test of the map:
\* no path is selected and nothing is handed to the executor, whatever the
\* wake word, the full text and the blocking flag.
C16_EmptyMapNoPlayback ==
    (stage_b \notin {"none", "config_failed"} /\ audio_map = <<>>) =>
       /\ stage_b = "empty_map"
       /\ selected_path = NoPath
       /\ selected_idx = 0
       /\ requests = <<>>
       /\ awaited = 0
       /\ pc = "done"

\* an event with a wake word, a full text and the blocking flag set has met
\* an empty map
C16_Witness ==
    /\ stage_b = "empty_map"
    /\ ~wake_word.isNone
    /\ ~full_text.isNone
    /\ blocking_default

\* the step of _on_detected that reads the configuration and dispatches
StageBStep == pc = "stage_b" /\ pc' # "stage_b"

C18_StageAEndsFirst ==
    (pc \in {"stage_b", "await_play", "done"} \/ stage_b # "none" \/ requests # <<>>) =>
       /\ stage_a \in {"noop", "ok", "failed"}
       /\ pending_call = ""

\* start_auto_conversation has raised and the cue was dispatched after it
C18_Witness ==
    /\ host_calls = <<CallIsSpeaking, CallStart>>
    /\ stage_a = "failed"
    /\ requests # <<>>

\* C19: detector.stop() is called on a running detector only.
C19_StopOnlyWhenRunning ==
    (last_op.call = DetectorStop) => last_op.was_running

\* C20: start calls detector.start exactly when the plugin holds a detector
\* and the host has an audio_codec that is not None, and then with that
\* audio_codec as the argument; otherwise the detector is left as it was.
C20_StartGuard ==
    (last_op.method = "start") =>
       /\ (last_op.call = DetectorStart) <=>
             (detector # "None" /\ last_op.codec # "None")
       /\ (last_op.call = DetectorStart) => (last_op.arg = last_op.codec)
       /\ (last_op.call # DetectorStart) =>
             (last_op.arg = "None" /\ det_running = last_op.was_running)

\* the detector has been started with the second codec
C20_Witness ==
    /\ last_op.method = "start"
    /\ last_op.call = DetectorStart
    /\ last_op.arg = "codec2"
    /\ det_running

====
